---- MODULE Spec2Model ----
(***************************************************************************)
(* State-machine model of the interactive cache simulator                  *)
(* (CacheSimulatorDiagram in src/components/Diagrams.tsx): a 4-way cache   *)
(* set whose replacement policy is gated by a confidence threshold between *)
(* an ML-guided (minimum score) victim and an LRU fallback victim.         *)
(*                                                                         *)
(* Scores are JavaScript numbers in the source.  They are modelled as     *)
(* exact fixed-point numbers (integer multiples of 1/ScoreUnit), so that   *)
(* 0.4 + (1/(recency+1))*0.3 keeps a distinct value for every recency and  *)
(* comparisons against 0.88 and between scores are the source's.          *)
(* Sequence indices are 1-based: index i here is index i-1 in the source.  *)
(***************************************************************************)
EXTENDS Integers, Sequences, FiniteSets, TLC

\* program state (the useState cells of CacheSimulatorDiagram)
VARIABLES cache, workload, lastAction, confidence, decisionMode
\* history of the last access: the workload it ran under, the cache it
\* started from, and the scores array its eviction decision read
VARIABLES accessMode, prevCache, scores
\* bookkeeping of the exploration: distinct ids accessed, evictions performed
VARIABLES seen, evictions
\* a plain LRU cache of the same capacity driven by the same accesses
VARIABLES lru, lruOutcome
\* the accesses made so far and the workload they ran under, recorded for as
\* long as they are the beginning of one of the Scenarios
VARIABLES run
\* the array the last access started from, as it reads after the access: the
\* updater copies the array, not the block objects it holds
VARIABLES snapshot
\* per resident id: the accesses made since the last access to it, and the
\* accesses made to it since it entered the cache
VARIABLES sinceAccess, accessCount
\* how many times React evaluates a state updater on the same previous state
\* before it commits the result: once, or twice when the component is mounted
\* under <React.StrictMode> in a development build
VARIABLES evaluations

vars == <<cache, workload, lastAction, confidence, decisionMode,
          accessMode, prevCache, scores, seen, evictions, lru, lruOutcome, run,
          snapshot, sinceAccess, accessCount, evaluations>>

(* ---------------------------- bounds ----------------------------------- *)
\* an access that would push a frequency or recency counter of a resident
\* block past what MaxFrequency accesses to it or MaxRecency accesses to
\* others can make it, or perform one eviction more than MaxEvictions, is cut
MaxFrequency == 3
MaxRecency == 4
MaxEvictions == 2

(* ------------------------ program constants ---------------------------- *)
CAPACITY == 4
blocks == <<"A", "B", "C", "D", "E", "F">>
WorkloadType == {"Friendly", "Hostile"}

(* ------------------------ fixed-point scores --------------------------- *)
RECURSIVE GCD(_, _)
GCD(a, b) == IF b = 0 THEN a ELSE GCD(b, a % b)

RECURSIVE LCMUpTo(_)
LCMUpTo(n) ==
    IF n <= 1 THEN 1
    ELSE LET below == LCMUpTo(n - 1) IN (below \div GCD(below, n)) * n

\* a score s of the source is the integer s * ScoreUnit; ScoreUnit is a
\* multiple of 100 * (recency + 1) for every recency an aged block can have
\* (a block ages by up to 2 per access), so every score the program computes
\* is represented exactly
ScoreUnit == 100 * LCMUpTo(2 * MaxRecency + 3)

\* the number num / den
Score(num, den) == num * (ScoreUnit \div den)

\* Math.min / Math.max of two numbers
MathMin(a, b) == IF b < a THEN b ELSE a
MathMax(a, b) == IF a < b THEN b ELSE a

CONFIDENCE_THRESHOLD == Score(88, 100)

\* a bug of predictReuseProb: the frequency rule is applied in both modes
predictReuseProbFreqOnly(freq, recency, type) ==
    IF freq >= 2 THEN Score(95, 100)
    ELSE IF freq = 1 THEN Score(4, 10)
    ELSE Score(1, 10)

\* a bug of predictReuseProb: freq > 2 instead of freq >= 2
predictReuseProbStrict(freq, recency, type) ==
    IF type = "Friendly"
    THEN LET baseScore == Score(4, 10) + (Score(1, recency + 1) * 3) \div 10
         IN  MathMin(Score(85, 100), baseScore)
    ELSE IF freq > 2 THEN Score(95, 100)
         ELSE IF freq = 1 THEN Score(4, 10)
         ELSE Score(1, 10)

(* --------------------------- scoring ------------------------------------ *)
predictReuseProb(freq, recency, type) ==
    IF type = "Friendly"
    THEN LET baseScore == Score(4, 10) + (Score(1, recency + 1) * 3) \div 10
         IN  MathMin(Score(85, 100), baseScore)
    ELSE IF freq >= 2 THEN Score(95, 100)
         ELSE IF freq = 1 THEN Score(4, 10)
         ELSE Score(1, 10)

(* ----------------------- pieces of access() ----------------------------- *)
CacheBlock(id, recency, frequency, score) ==
    [id |-> id, recency |-> recency, frequency |-> frequency, score |-> score]

\* a bug of findIndex: the block at index 0 is never found
findIndexSkipsFirst(prevBlocks, blockId) ==
    IF \E i \in 2..Len(prevBlocks) : prevBlocks[i].id = blockId
    THEN CHOOSE i \in 2..Len(prevBlocks) :
            /\ prevBlocks[i].id = blockId
            /\ \A j \in 2..(i - 1) : prevBlocks[j].id # blockId
    ELSE 0

\* prevCache.findIndex(b => b.id === blockId); 0 stands for the source's -1
findIndex(prevBlocks, blockId) ==
    IF \E i \in 1..Len(prevBlocks) : prevBlocks[i].id = blockId
    THEN CHOOSE i \in 1..Len(prevBlocks) :
            /\ prevBlocks[i].id = blockId
            /\ \A j \in 1..(i - 1) : prevBlocks[j].id # blockId
    ELSE 0

\* a bug of hitUpdate: the blocks are rescored before their counters change
hitUpdateScoresFirst(prevBlocks, hitIndex, type) ==
    [idx \in 1..Len(prevBlocks) |->
        LET b == prevBlocks[idx]
        IN  CacheBlock(b.id,
                       IF idx = hitIndex THEN 0 ELSE b.recency + 1,
                       IF idx = hitIndex THEN b.frequency + 1 ELSE b.frequency,
                       predictReuseProb(b.frequency, b.recency, type))]

\* a bug of hitUpdate: the idx !== hitIndex test is lost, the hit block ages too
hitUpdateAgesAll(prevBlocks, hitIndex, type) ==
    [idx \in 1..Len(prevBlocks) |->
        LET b == prevBlocks[idx]
            frequency == IF idx = hitIndex THEN b.frequency + 1 ELSE b.frequency
            recency == IF idx = hitIndex THEN 1 ELSE b.recency + 1
        IN  CacheBlock(b.id, recency, frequency,
                       predictReuseProb(frequency, recency, type))]

\* a bug of hitUpdate: the other blocks do not age on a hit
hitUpdateOthersStay(prevBlocks, hitIndex, type) ==
    [idx \in 1..Len(prevBlocks) |->
        LET b == prevBlocks[idx]
            frequency == IF idx = hitIndex THEN b.frequency + 1 ELSE b.frequency
            recency == IF idx = hitIndex THEN 0 ELSE b.recency
        IN  CacheBlock(b.id, recency, frequency,
                       predictReuseProb(frequency, recency, type))]

\* the HIT branch: the hit block gets frequency + 1 and recency 0, every
\* other block recency + 1, and every block is rescored
hitUpdate(prevBlocks, hitIndex, type) ==
    [idx \in 1..Len(prevBlocks) |->
        LET b == prevBlocks[idx]
            frequency == IF idx = hitIndex THEN b.frequency + 1 ELSE b.frequency
            recency == IF idx = hitIndex THEN 0 ELSE b.recency + 1
        IN  CacheBlock(b.id, recency, frequency,
                       predictReuseProb(frequency, recency, type))]

\* a bug of ageAll: the recency is bumped but the stored score is kept
ageAllKeepsScore(prevBlocks, type) ==
    [idx \in 1..Len(prevBlocks) |->
        LET b == prevBlocks[idx]
        IN  CacheBlock(b.id, b.recency + 1, b.frequency, b.score)]

\* a bug of ageAll: the block at index 0 does not age
ageAllSkipsFirst(prevBlocks, type) ==
    [idx \in 1..Len(prevBlocks) |->
        LET b == prevBlocks[idx]
            recency == IF idx = 1 THEN b.recency ELSE b.recency + 1
        IN  CacheBlock(b.id, recency, b.frequency,
                       predictReuseProb(b.frequency, recency, type))]

\* newCache.forEach(b => { b.recency += 1; b.score = predictReuseProb(...) })
ageAll(prevBlocks, type) ==
    [idx \in 1..Len(prevBlocks) |->
        LET b == prevBlocks[idx]
        IN  CacheBlock(b.id, b.recency + 1, b.frequency,
                       predictReuseProb(b.frequency, b.recency + 1, type))]

\* a bug of newBlock: the first access is not counted
newBlockFreqZero(blockId, type) ==
    CacheBlock(blockId, 0, 0, predictReuseProb(0, 0, type))

\* a bug of newBlock: the new block starts one access old
newBlockAged(blockId, type) ==
    CacheBlock(blockId, 1, 1, predictReuseProb(1, 1, type))

\* const newBlock = { id: blockId, recency: 0, frequency: 1, score: ... }
newBlockFor(blockId, type) ==
    CacheBlock(blockId, 0, 1, predictReuseProb(1, 0, type))

\* newCache.map(b => b.score)
scoresOf(newCache) == [idx \in 1..Len(newCache) |-> newCache[idx].score]

\* Math.max(...scores), for a non-empty array
RECURSIVE maxFrom(_, _, _)
maxFrom(arr, idx, acc) ==
    IF idx > Len(arr) THEN acc
    ELSE maxFrom(arr, idx + 1, MathMax(acc, arr[idx]))

mathMaxOf(arr) == maxFrom(arr, 2, arr[1])

\* a bug of mlVictimIndex: <= instead of <, the last minimum wins
RECURSIVE mlReduceLast(_, _, _)
mlReduceLast(arr, idx, minIdx) ==
    IF idx > Len(arr) THEN minIdx
    ELSE mlReduceLast(arr, idx + 1,
                      IF arr[idx].score <= arr[minIdx].score THEN idx ELSE minIdx)

mlVictimIndexLast(newCache) == mlReduceLast(newCache, 1, 1)

\* a bug of mlVictimIndex: the block with the highest score is chosen
RECURSIVE mlReduceMax(_, _, _)
mlReduceMax(arr, idx, maxIdx) ==
    IF idx > Len(arr) THEN maxIdx
    ELSE mlReduceMax(arr, idx + 1,
                     IF arr[idx].score > arr[maxIdx].score THEN idx ELSE maxIdx)

mlVictimIndexMax(newCache) == mlReduceMax(newCache, 1, 1)

\* a variant of mlVictimIndex: among the blocks of minimal score the least
\* recently used one is chosen
RECURSIVE mlReduceOldest(_, _, _)
mlReduceOldest(arr, idx, minIdx) ==
    IF idx > Len(arr) THEN minIdx
    ELSE mlReduceOldest(arr, idx + 1,
                        IF \/ arr[idx].score < arr[minIdx].score
                           \/ /\ arr[idx].score = arr[minIdx].score
                              /\ arr[idx].recency > arr[minIdx].recency
                        THEN idx ELSE minIdx)

mlVictimIndexOldest(newCache) == mlReduceOldest(newCache, 1, 1)

\* newCache.reduce((minIdx, b, idx, arr) => b.score < arr[minIdx].score ? idx : minIdx, 0)
RECURSIVE mlReduce(_, _, _)
mlReduce(arr, idx, minIdx) ==
    IF idx > Len(arr) THEN minIdx
    ELSE mlReduce(arr, idx + 1,
                  IF arr[idx].score < arr[minIdx].score THEN idx ELSE minIdx)

mlVictimIndex(newCache) == mlReduce(newCache, 1, 1)

\* a bug of lruVictimIndex: < instead of >, the most recently used block goes
RECURSIVE lruReduceMin(_, _, _)
lruReduceMin(arr, idx, minIdx) ==
    IF idx > Len(arr) THEN minIdx
    ELSE lruReduceMin(arr, idx + 1,
                      IF arr[idx].recency < arr[minIdx].recency THEN idx ELSE minIdx)

lruVictimIndexMRU(newCache) == lruReduceMin(newCache, 1, 1)

\* newCache.reduce((maxIdx, b, idx, arr) => b.recency > arr[maxIdx].recency ? idx : maxIdx, 0)
RECURSIVE lruReduce(_, _, _)
lruReduce(arr, idx, maxIdx) ==
    IF idx > Len(arr) THEN maxIdx
    ELSE lruReduce(arr, idx + 1,
                   IF arr[idx].recency > arr[maxIdx].recency THEN idx ELSE maxIdx)

lruVictimIndex(newCache) == lruReduce(newCache, 1, 1)

\* a bug of hasRoom: off by one, a fifth block is appended
hasRoomOffByOne(newCache) == Len(newCache) <= CAPACITY

\* newCache.length < CAPACITY
hasRoom(newCache) == Len(newCache) < CAPACITY

\* a bug of gateIsML: the comparison is turned around
gateIsMLBelow(maxScore) == maxScore < CONFIDENCE_THRESHOLD

\* maxScore > CONFIDENCE_THRESHOLD
gateIsML(maxScore) == maxScore > CONFIDENCE_THRESHOLD

\* a bug of evictDecision: the incoming block is pushed before the scores are
\* read, so its score takes part in maxScore
evictDecisionCountsNew(prevBlocks, type) ==
    LET newCache == ageAll(prevBlocks, type)
        maxScore == MathMax(mathMaxOf(scoresOf(newCache)), predictReuseProb(1, 0, type))
        ml == gateIsML(maxScore)
    IN  [newCache |-> newCache,
         scores |-> scoresOf(newCache),
         maxScore |-> maxScore,
         victimIndex |-> IF ml THEN mlVictimIndex(newCache)
                         ELSE lruVictimIndex(newCache),
         method |-> IF ml THEN "ML" ELSE "LRU_FALLBACK"]

\* the EVICTION branch up to the choice of the victim
evictDecision(prevBlocks, type) ==
    LET newCache == ageAll(prevBlocks, type)
        maxScore == mathMaxOf(scoresOf(newCache))
        ml == gateIsML(maxScore)
    IN  [newCache |-> newCache,
         scores |-> scoresOf(newCache),
         maxScore |-> maxScore,
         victimIndex |-> IF ml THEN mlVictimIndex(newCache)
                         ELSE lruVictimIndex(newCache),
         method |-> IF ml THEN "ML" ELSE "LRU_FALLBACK"]

\* the array returned by the setCache updater for the array prevBlocks
setCacheUpdater(prevBlocks, blockId, type) ==
    LET hitIndex == findIndex(prevBlocks, blockId)
    IN  IF hitIndex # 0 THEN hitUpdate(prevBlocks, hitIndex, type)
        ELSE IF hasRoom(prevBlocks)
        THEN Append(ageAll(prevBlocks, type), newBlockFor(blockId, type))
        ELSE LET d == evictDecision(prevBlocks, type)
             IN  [d.newCache EXCEPT ![d.victimIndex] = newBlockFor(blockId, type)]

\* the text of lastAction: what happened, to which block, and for an
\* eviction the victim's id and the method named in the message
Action(kind, block, victim, method) ==
    [kind |-> kind, block |-> block, victim |-> victim, method |-> method]

(* ------------------------ bounds of the exploration --------------------- *)
InBounds(c) ==
    \A i \in 1..Len(c) :
        /\ c[i].recency <= MaxRecency * evaluations
        /\ c[i].frequency <= 1 + (MaxFrequency - 1) * evaluations

\* position of an id in the blocks array, 0 for an id that is not in it
Position(blockId) ==
    IF \E k \in 1..Len(blocks) : blocks[k] = blockId
    THEN CHOOSE k \in 1..Len(blocks) : blocks[k] = blockId
    ELSE 0

\* The code reads ids only through ===, so runs that differ by a renaming of
\* ids behave alike: ids are first accessed in the order of the blocks array.
InOrder(blockId) == Position(blockId) <= seen + 1

(* ------------------------- recorded scenarios --------------------------- *)
\* the access sequences whose outcome is followed step by step
Scenarios ==
    { [mode |-> "Hostile", ids |-> <<"A", "B", "C", "D", "A", "A", "E">>],
      [mode |-> "Friendly", ids |-> <<"A", "B", "C", "D", "E">>],
      [mode |-> "Hostile", ids |-> <<"A", "A", "B", "C", "D", "E", "A">>],
      [mode |-> "Hostile", ids |-> <<"A", "A", "A", "B", "C", "D", "E">>],
      [mode |-> "Friendly", ids |-> <<"A", "A", "B", "C", "D", "E", "A">>],
      [mode |-> "Hostile", ids |-> <<"A", "B", "C", "D", "A", "E", "F">>] }

NoAccessYet == [mode |-> "", ids |-> <<>>]
OffScenario == [mode |-> "off", ids |-> <<>>]

Begins(r) ==
    \E s \in Scenarios :
        /\ s.mode = r.mode
        /\ Len(r.ids) <= Len(s.ids)
        /\ SubSeq(s.ids, 1, Len(r.ids)) = r.ids

\* the record after one more access to blockId made under workload type
Recorded(r, blockId, type) ==
    LET next == [mode |-> type, ids |-> Append(r.ids, blockId)]
    IN  IF r.mode \in {"", type} /\ Begins(next) THEN next ELSE OffScenario

(* ------------------------------ state ----------------------------------- *)
\* the five useState cells; App mounts the component outside StrictMode, so
\* React evaluates every updater once
Init ==
    /\ cache = <<>>
    /\ workload = "Hostile"
    /\ lastAction = Action("Ready", "", "", "")
    /\ confidence = 0
    /\ decisionMode = "IDLE"
    /\ accessMode = "Hostile"
    /\ prevCache = <<>>
    /\ scores = <<>>
    /\ seen = 0
    /\ evictions = 0
    /\ lru = <<>>
    /\ lruOutcome = "IDLE"
    /\ run = NoAccessYet
    /\ snapshot = <<>>
    /\ sinceAccess = [id \in {} |-> 0]
    /\ accessCount = [id \in {} |-> 0]
    /\ evaluations = 1

\* the same component mounted under <React.StrictMode> in a development
\* build, where React evaluates every updater twice
InitStrictMode ==
    /\ cache = <<>>
    /\ workload = "Hostile"
    /\ lastAction = Action("Ready", "", "", "")
    /\ confidence = 0
    /\ decisionMode = "IDLE"
    /\ accessMode = "Hostile"
    /\ prevCache = <<>>
    /\ scores = <<>>
    /\ seen = 0
    /\ evictions = 0
    /\ lru = <<>>
    /\ lruOutcome = "IDLE"
    /\ run = NoAccessYet
    /\ snapshot = <<>>
    /\ sinceAccess = [id \in {} |-> 0]
    /\ accessCount = [id \in {} |-> 0]
    /\ evaluations = 2

\* what the array prevBlocks reads after one evaluation of the updater:
\* newCache = [...prevCache] copies the array, and every branch writes
\* recency, frequency and score into the block objects both arrays hold
updaterWrites(prevBlocks, blockId, type) ==
    LET hitIndex == findIndex(prevBlocks, blockId)
    IN  IF hitIndex # 0 THEN hitUpdate(prevBlocks, hitIndex, type)
        ELSE ageAll(prevBlocks, type)

\* access(blockId): the setCache updater with the setters it calls, as React
\* evaluates it.  Every evaluation is given the same previous array, whose
\* blocks the evaluation before it has written to, and the result and the
\* setter calls of the last evaluation are kept.  snapshot is the previous
\* array as it reads once the updater has run
access(blockId) ==
    /\ InOrder(blockId)
    /\ \E prevBlocks \in {IF evaluations = 2
                           THEN updaterWrites(cache, blockId, workload)
                           ELSE cache} :
       LET hitIndex == findIndex(prevBlocks, blockId)
           evicting == hitIndex = 0 /\ ~hasRoom(prevBlocks)
       IN
           /\ evicting => evictions < MaxEvictions
           /\ seen' = IF Position(blockId) > seen THEN Position(blockId) ELSE seen
           /\ evictions' = IF evicting THEN evictions + 1 ELSE evictions
           /\ accessMode' = workload
           /\ prevCache' = cache
           /\ run' = Recorded(run, blockId, workload)
           /\ UNCHANGED <<workload, evaluations>>
           /\ IF hitIndex # 0
              THEN /\ cache' = hitUpdate(prevBlocks, hitIndex, workload)
                   /\ snapshot' = cache'
                   /\ lastAction' = Action("Hit", blockId, "", "")
                   /\ decisionMode' = "IDLE"
                   /\ scores' = <<>>
                   /\ UNCHANGED confidence
              ELSE IF hasRoom(prevBlocks)
              THEN /\ cache' = Append(ageAll(prevBlocks, workload),
                                      newBlockFor(blockId, workload))
                   /\ snapshot' = ageAll(prevBlocks, workload)
                   /\ lastAction' = Action("Inserted", blockId, "", "")
                   /\ decisionMode' = "IDLE"
                   /\ scores' = <<>>
                   /\ UNCHANGED confidence
              ELSE \E d \in {evictDecision(prevBlocks, workload)} :
                       /\ scores' = d.scores
                       /\ snapshot' = d.newCache
                       /\ confidence' = d.maxScore
                       /\ decisionMode' = d.method
                       /\ lastAction' = Action("Evicted", blockId,
                                               d.newCache[d.victimIndex].id, d.method)
                       /\ cache' = [d.newCache EXCEPT ![d.victimIndex] =
                                       newBlockFor(blockId, workload)]
           /\ InBounds(cache')
           /\ LET resident == {cache'[i].id : i \in 1..Len(cache')}
                  wasResident == \E i \in 1..Len(cache) : cache[i].id = blockId
              IN  /\ sinceAccess' = [id \in resident |->
                                        IF id = blockId THEN 0 ELSE sinceAccess[id] + 1]
                  /\ accessCount' = [id \in resident |->
                                        IF id # blockId THEN accessCount[id]
                                        ELSE IF wasResident THEN accessCount[id] + 1
                                        ELSE 1]

Access ==
    \E k \in 1..Len(blocks) : access(blocks[k]) /\ UNCHANGED <<lru, lruOutcome>>

\* a bug of setWorkload: the switch rescores the resident blocks at once
setWorkloadRescoring(type) ==
    /\ workload' = type
    /\ cache' = [idx \in 1..Len(cache) |->
                    CacheBlock(cache[idx].id, cache[idx].recency, cache[idx].frequency,
                               predictReuseProb(cache[idx].frequency,
                                                cache[idx].recency, type))]
    /\ UNCHANGED <<lastAction, confidence, decisionMode,
                   accessMode, prevCache, scores, seen, evictions, lru, lruOutcome, run,
                   snapshot, sinceAccess, accessCount, evaluations>>

\* the workload buttons: onClick={() => setWorkload(...)}
setWorkload(type) ==
    /\ workload' = type
    /\ UNCHANGED <<cache, lastAction, confidence, decisionMode,
                   accessMode, prevCache, scores, seen, evictions, lru, lruOutcome, run,
                   snapshot, sinceAccess, accessCount, evaluations>>

SetWorkload == \E type \in WorkloadType : setWorkload(type)

Next == Access \/ SetWorkload

Spec == Init /\ [][Next]_vars

\* the simulator in a development build under StrictMode
SpecStrictMode == InitStrictMode /\ [][Next]_vars

(* ------------- the same accesses on a plain LRU cache ------------------- *)
\* a plain LRU cache as a list of ids, most recently used first
lruHits(list, blockId) == \E i \in 1..Len(list) : list[i] = blockId

lruAccess(list, blockId) ==
    LET others == SelectSeq(list, LAMBDA x : x # blockId)
    IN  IF lruHits(list, blockId) THEN <<blockId>> \o others
        ELSE IF Len(list) < CAPACITY THEN <<blockId>> \o list
        ELSE <<blockId>> \o SubSeq(list, 1, Len(list) - 1)

\* the simulator after Friendly has been selected on the empty cache
InitFriendly ==
    /\ cache = <<>>
    /\ workload = "Friendly"
    /\ lastAction = Action("Ready", "", "", "")
    /\ confidence = 0
    /\ decisionMode = "IDLE"
    /\ accessMode = "Friendly"
    /\ prevCache = <<>>
    /\ scores = <<>>
    /\ seen = 0
    /\ evictions = 0
    /\ lru = <<>>
    /\ lruOutcome = "IDLE"
    /\ run = NoAccessYet
    /\ snapshot = <<>>
    /\ sinceAccess = [id \in {} |-> 0]
    /\ accessCount = [id \in {} |-> 0]
    /\ evaluations = 1

\* one access, applied to the simulator and to the plain LRU cache
AccessBoth ==
    \E k \in 1..Len(blocks) :
        /\ access(blocks[k])
        /\ lru' = lruAccess(lru, blocks[k])
        /\ lruOutcome' = IF lruHits(lru, blocks[k]) THEN "Hit" ELSE "Miss"

\* clicking the Friendly button again
StayFriendly == setWorkload("Friendly")

NextFriendly == AccessBoth \/ StayFriendly

SpecFriendly == InitFriendly /\ [][NextFriendly]_vars

\* clicking the Hostile button again
StayHostile == setWorkload("Hostile")

\* access called with the empty identifier, which no button passes
AccessEmptyId == access("") /\ UNCHANGED <<lru, lruOutcome>>

\* clicking the button of the workload that is already selected
StaySame == setWorkload(workload)

NextAnyId == Access \/ AccessEmptyId \/ StaySame

\* the simulator, with either workload selected on the empty cache and kept,
\* when access may also be given the empty identifier
SpecAnyId == (Init \/ InitFriendly) /\ [][NextAnyId]_vars

NextHostile == AccessBoth \/ StayHostile

\* the simulator left in Hostile mode, next to the plain LRU cache
SpecHostile == Init /\ [][NextHostile]_vars

(* ------------------------- vocabulary of the claims --------------------- *)
Ids(c) == {c[i].id : i \in 1..Len(c)}
Hit == lastAction.kind = "Hit"
MissInsert == lastAction.kind = "Inserted"
MissEvict == lastAction.kind = "Evicted"
Accessed == Hit \/ MissInsert \/ MissEvict

\* the score of the block at index i of the cache the last access started
\* from, recomputed from the recency and frequency it had when that access
\* had aged it, under the mode of that access
FreshScore(i) ==
    predictReuseProb(snapshot[i].frequency, snapshot[i].recency, accessMode)

\* the index the last eviction replaced: where the accessed block now sits
VictimIndex == CHOOSE v \in 1..Len(cache) : cache[v].id = lastAction.block

\* does a score exceed 0.88
Above088(s) == s > Score(88, 100)

(* ------------------------------- claims --------------------------------- *)

\* C1: capacity invariant.  In every run of accesses and workload switches
\* the number of resident blocks is at most CAPACITY, it never decreases
\* from one state to the next, and once it equals CAPACITY it stays there.
C1_Capacity ==
    /\ [](Len(cache) <= CAPACITY)
    /\ [][Len(cache') >= Len(cache)]_vars
    /\ [][Len(cache) = CAPACITY => Len(cache') = CAPACITY]_vars

\* a full cache that has gone through evictions and a hit
C1_Witness == Len(cache) = CAPACITY /\ evictions = MaxEvictions /\ Hit

\* C2: score freshness.  After every access (Hit, MissInsert, MissEvict)
\* every resident block's score is predictReuseProb of its own frequency and
\* recency under the workload mode that access ran with.
C2_ScoreFreshness ==
    \A i \in 1..Len(cache) :
        cache[i].score =
            predictReuseProb(cache[i].frequency, cache[i].recency, accessMode)

\* a hit in Friendly mode on a full cache, right after an access made in
\* Hostile mode: the stored scores were those of the other mode
C2_Witness ==
    /\ Hit /\ accessMode = "Friendly" /\ Len(cache) = CAPACITY
    /\ \E i \in 1..Len(prevCache) : prevCache[i].frequency >= 2
    /\ \A i \in 1..Len(prevCache) :
          prevCache[i].score =
              predictReuseProb(prevCache[i].frequency, prevCache[i].recency, "Hostile")

\* C3: no stale score decides.  At every MissEvict the scores array the
\* decision read holds, for each resident block, the score recomputed from
\* its aged recency, its frequency and the mode of this access; the
\* confidence is their maximum and the victim's score relates to them as the
\* method says (ML: no fresh score is lower; LRU: no fresh score exceeds 0.88).
C3_NoStaleDecision ==
    MissEvict =>
        /\ Len(scores) = Len(prevCache) /\ Len(snapshot) = Len(prevCache)
        /\ \A i \in 1..Len(prevCache) :
              /\ snapshot[i].id = prevCache[i].id
              /\ snapshot[i].frequency = prevCache[i].frequency
              /\ snapshot[i].recency > prevCache[i].recency
              /\ i # VictimIndex => cache[i] = snapshot[i]
        /\ \A i \in 1..Len(prevCache) : scores[i] = FreshScore(i)
        /\ \E i \in 1..Len(prevCache) : confidence = FreshScore(i)
        /\ \A i \in 1..Len(prevCache) : FreshScore(i) <= confidence
        /\ lastAction.method = "ML" =>
              \A i \in 1..Len(prevCache) : FreshScore(VictimIndex) <= FreshScore(i)
        /\ lastAction.method = "LRU_FALLBACK" =>
              \A i \in 1..Len(prevCache) : ~Above088(FreshScore(i))

\* an ML-guided eviction in Hostile mode whose stored scores were all
\* computed under Friendly mode (the mode was switched since the last access)
C3_Witness ==
    /\ MissEvict /\ lastAction.method = "ML" /\ accessMode = "Hostile"
    /\ \A i \in 1..Len(prevCache) :
          /\ prevCache[i].score =
                predictReuseProb(prevCache[i].frequency, prevCache[i].recency, "Friendly")
          /\ prevCache[i].score # FreshScore(i)

\* C4: confidence gate.  On every MissEvict the method (in the message and
\* in decisionMode) is ML exactly when the maximum fresh score is strictly
\* greater than 0.88, and LRU fallback for every maximum of at most 0.88.
C4_ConfidenceGate ==
    MissEvict =>
        LET maxScore == CHOOSE m \in {FreshScore(i) : i \in 1..Len(prevCache)} :
                            \A i \in 1..Len(prevCache) : FreshScore(i) <= m
        IN  /\ decisionMode \in {"ML", "LRU_FALLBACK"}
            /\ decisionMode = "ML" <=> Above088(maxScore)
            /\ decisionMode = "LRU_FALLBACK" <=> ~Above088(maxScore)
            /\ lastAction.method = decisionMode

\* an eviction in Hostile mode that falls back to LRU: the maximum is 0.4
C4_Witness ==
    /\ MissEvict /\ accessMode = "Hostile"
    /\ decisionMode = "LRU_FALLBACK" /\ confidence = Score(4, 10)

\* the block the last eviction removed, as it was before the access
Victim == prevCache[VictimIndex]

\* C5: ML-guided victim.  When the method is ML the victim is the resident
\* block with the minimal fresh score, the lowest index winning among equal
\* scores whatever the recencies; it leaves and the new block takes its index.
C5_MLVictim ==
    MissEvict /\ lastAction.method = "ML" =>
        /\ \A j \in 1..Len(prevCache) : FreshScore(VictimIndex) <= FreshScore(j)
        /\ \A j \in 1..(VictimIndex - 1) : FreshScore(j) > FreshScore(VictimIndex)
        /\ lastAction.victim = Victim.id
        /\ Victim.id \notin Ids(cache)

\* an ML eviction where a block of equal score at a higher index was less
\* recently used than the victim
C5_Witness ==
    /\ MissEvict /\ lastAction.method = "ML"
    /\ \E j \in (VictimIndex + 1)..Len(prevCache) :
          /\ FreshScore(j) = FreshScore(VictimIndex)
          /\ prevCache[j].recency > Victim.recency

\* C6: LRU-fallback victim.  When the method is LRU fallback the victim is
\* the resident block of maximal (aged) recency, the lowest index winning
\* among equal recencies.
C6_LRUVictim ==
    MissEvict /\ lastAction.method = "LRU_FALLBACK" =>
        /\ \A j \in 1..Len(prevCache) : prevCache[j].recency + 1 <= Victim.recency + 1
        /\ \A j \in 1..(VictimIndex - 1) : prevCache[j].recency < Victim.recency
        /\ lastAction.victim = Victim.id
        /\ Victim.id \notin Ids(cache)

\* an LRU-fallback eviction in Hostile mode whose victim is not the first
\* block of the cache order (all scores tie at 0.4, so ML would take index 1)
C6_Witness ==
    /\ MissEvict /\ lastAction.method = "LRU_FALLBACK" /\ accessMode = "Hostile"
    /\ VictimIndex > 1

\* C7: Friendly-mode safety.  Every MissEvict made in Friendly mode has a
\* confidence of at most 0.88 (indeed at most 0.85) and uses LRU fallback,
\* whatever the frequencies and whatever modes earlier accesses ran under.
C7_FriendlySafety ==
    MissEvict /\ accessMode = "Friendly" =>
        /\ ~Above088(confidence)
        /\ confidence <= Score(85, 100)
        /\ decisionMode = "LRU_FALLBACK"
        /\ lastAction.method = "LRU_FALLBACK"

\* a Friendly eviction of a cache whose blocks all have frequency >= 2 and
\* whose stored scores, computed under Hostile mode, were all 0.95
C7_Witness ==
    /\ MissEvict /\ accessMode = "Friendly"
    /\ \A i \in 1..Len(prevCache) :
          prevCache[i].frequency >= 2 /\ prevCache[i].score = Score(95, 100)

\* the indices of the blocks with frequency >= 2 before the last access
Frequent == {i \in 1..Len(prevCache) : prevCache[i].frequency >= 2}

\* C9: threshold determinism.  In Hostile mode, when the cache is full, one
\* resident block has frequency >= 2 and all others frequency 1, an access to
\* a non-resident id is a MissEvict with method ML whose victim is one of the
\* frequency-1 blocks; the frequency >= 2 block stays resident.
C9_ThresholdDeterminism ==
    /\ Accessed /\ ~Hit /\ accessMode = "Hostile"
    /\ Len(prevCache) = CAPACITY
    /\ Cardinality(Frequent) = 1
    /\ \A i \in 1..Len(prevCache) : i \notin Frequent => prevCache[i].frequency = 1
    => /\ MissEvict
       /\ lastAction.method = "ML" /\ decisionMode = "ML"
       /\ Victim.frequency = 1
       /\ \A i \in Frequent : /\ cache[i].id = prevCache[i].id
                               /\ cache[i].frequency = prevCache[i].frequency
                               /\ cache[i].recency > prevCache[i].recency

\* such an eviction where the frequent block was the least recently used
C9_Witness ==
    /\ MissEvict /\ accessMode = "Hostile" /\ Cardinality(Frequent) = 1
    /\ \A i \in Frequent : \A j \in 1..Len(prevCache) :
          prevCache[j].recency <= prevCache[i].recency

\* C10 as stated: no MissEvict made in Hostile mode selects a block with
\* frequency >= 2 as its victim.
C10_FrequentNeverEvicted ==
    MissEvict /\ accessMode = "Hostile" => Victim.frequency < 2

\* C10 amended: a MissEvict made in Hostile mode selects a block with
\* frequency >= 2 only when every resident block has frequency >= 2, and
\* then it is the block at the lowest index; while some resident block has
\* frequency 1, the victim has frequency 1.
C10_FrequentProtected ==
    MissEvict /\ accessMode = "Hostile" =>
        /\ (\E i \in 1..Len(prevCache) : prevCache[i].frequency < 2)
              => Victim.frequency = 1
        /\ Victim.frequency >= 2
              => /\ \A i \in 1..Len(prevCache) : prevCache[i].frequency >= 2
                 /\ VictimIndex = 1

\* a Hostile eviction from a cache holding three frequent blocks and one
\* block of frequency 1, which is the victim
C10_Witness ==
    /\ MissEvict /\ accessMode = "Hostile"
    /\ Cardinality(Frequent) = CAPACITY - 1
    /\ Victim.frequency = 1

\* C8: equivalence with LRU in Friendly mode.  When the mode is Friendly for
\* the whole run, each access is a hit in the simulator exactly when it is a
\* hit in a plain LRU cache of the same capacity driven by the same accesses,
\* and after each access both hold the same set of ids.
C8_LRUEquivalence ==
    /\ Ids(cache) = {lru[i] : i \in 1..Len(lru)}
    /\ Len(cache) = Len(lru)
    /\ Hit <=> lruOutcome = "Hit"
    /\ (MissInsert \/ MissEvict) <=> lruOutcome = "Miss"
    /\ MissEvict => lastAction.victim \notin {lru[i] : i \in 1..Len(lru)}

\* a second eviction whose victim is not the first block of the cache order,
\* from a cache that holds a block hit before
C8_Witness ==
    /\ MissEvict /\ evictions = MaxEvictions /\ VictimIndex > 1
    /\ \E i \in 1..Len(prevCache) : prevCache[i].frequency >= 2
    /\ lruOutcome = "Miss"

(* ------------------------ end-to-end scenarios -------------------------- *)
\* the run so far is exactly these accesses, all made under this mode
RunIs(type, ids) == run = [mode |-> type, ids |-> ids]

\* the resident block with this id
BlockOf(id) == cache[CHOOSE i \in 1..Len(cache) : cache[i].id = id]

EndToEnd == <<"A", "B", "C", "D", "A", "A", "E">>

\* C11 as stated: in Hostile mode, from the empty cache, after the accesses
\* A, B, C, D, A, A, E block A is resident with frequency 3, recency 0 and
\* score 0.95.
C11_EndToEndBlockA ==
    RunIs("Hostile", EndToEnd) =>
        /\ "A" \in Ids(cache)
        /\ BlockOf("A").frequency = 3
        /\ BlockOf("A").recency = 0
        /\ BlockOf("A").score = Score(95, 100)

\* C11 amended: after A, B, C, D, A, A block A has frequency 3, recency 0 and
\* score 0.95; the seventh access (E) ages it, so after A, B, C, D, A, A, E
\* block A is resident with frequency 3, recency 1 and score 0.95.
C11_EndToEndBlockAAged ==
    /\ RunIs("Hostile", SubSeq(EndToEnd, 1, 6)) =>
          /\ "A" \in Ids(cache)
          /\ BlockOf("A").frequency = 3
          /\ BlockOf("A").recency = 0
          /\ BlockOf("A").score = Score(95, 100)
    /\ RunIs("Hostile", EndToEnd) =>
          /\ "A" \in Ids(cache)
          /\ BlockOf("A").frequency = 3
          /\ BlockOf("A").recency = 1
          /\ BlockOf("A").score = Score(95, 100)

\* the scenario has run to its end and A is still in the first position
C11_Witness == RunIs("Hostile", EndToEnd) /\ cache[1].id = "A"

\* C12: in the same scenario the first six accesses cause no eviction and
\* the seventh (E) is a MissEvict with confidence 0.95, method ML and victim
\* B; E then sits at B's former index and A, C, D are still resident.
C12_EndToEndEviction ==
    /\ \A n \in 1..6 : RunIs("Hostile", SubSeq(EndToEnd, 1, n)) =>
          /\ ~MissEvict /\ evictions = 0
          /\ decisionMode = "IDLE" /\ confidence = 0
    /\ RunIs("Hostile", EndToEnd) =>
          /\ MissEvict /\ evictions = 1
          /\ confidence = Score(95, 100)
          /\ lastAction.method = "ML" /\ decisionMode = "ML"
          /\ lastAction.victim = "B"
          /\ \E i \in 1..Len(prevCache) : prevCache[i].id = "B" /\ cache[i].id = "E"
          /\ Ids(cache) = {"A", "C", "D", "E"}

\* the seventh access of the scenario has evicted a block
C12_Witness == RunIs("Hostile", EndToEnd) /\ MissEvict /\ lastAction.block = "E"

FriendlyFill == <<"A", "B", "C", "D", "E">>

\* C13 as stated: in Friendly mode, from the empty cache, the accesses
\* A, B, C make the third access a MissEvict with maxScore <= 0.85, method
\* LRU fallback and victim A, leaving exactly B and C resident (the claim
\* takes a capacity of 2).
C13_FriendlyFallbackOfTwo ==
    RunIs("Friendly", SubSeq(FriendlyFill, 1, 3)) =>
        /\ MissEvict
        /\ confidence <= Score(85, 100)
        /\ lastAction.method = "LRU_FALLBACK"
        /\ lastAction.victim = "A"
        /\ Ids(cache) = {"B", "C"}

\* C13 amended to the capacity the simulator has: in Friendly mode, from the
\* empty cache, the accesses A, B, C, D are inserts and the fifth access (E)
\* is a MissEvict with maxScore <= 0.85, method LRU fallback and victim A,
\* leaving exactly B, C, D and E resident.
C13_FriendlyFallback ==
    /\ \A n \in 1..CAPACITY : RunIs("Friendly", SubSeq(FriendlyFill, 1, n)) =>
          MissInsert /\ Len(cache) = n /\ confidence = 0
    /\ RunIs("Friendly", FriendlyFill) =>
          /\ MissEvict
          /\ confidence > 0 /\ confidence <= Score(85, 100)
          /\ lastAction.method = "LRU_FALLBACK" /\ decisionMode = "LRU_FALLBACK"
          /\ lastAction.victim = "A"
          /\ \A j \in 1..Len(prevCache) : prevCache[j].recency <= Victim.recency
          /\ Ids(cache) = {"B", "C", "D", "E"}

\* the Friendly scenario has run to its end
C13_Witness == RunIs("Friendly", FriendlyFill) /\ workload = "Friendly"

Scan == <<"A", "A", "B", "C", "D", "E", "A">>
ScanAfterThree == <<"A", "A", "A", "B", "C", "D", "E">>

LruIds == {lru[i] : i \in 1..Len(lru)}

\* C14: scan scenario, hybrid against LRU.  In Hostile mode, with A resident
\* at frequency >= 2 (two or three accesses to A), the accesses B, C, D, E
\* end with E evicting B and not A, and a following access to A is a Hit;
\* the plain LRU cache driven by the same accesses evicts A on E and misses
\* on the following access to A.
C14_ScanHybridVersusLRU ==
    /\ \A ids \in {SubSeq(Scan, 1, 6), ScanAfterThree} : RunIs("Hostile", ids) =>
          /\ \E i \in 1..Len(prevCache) :
                prevCache[i].id = "A" /\ prevCache[i].frequency >= 2
          /\ MissEvict /\ lastAction.victim = "B"
          /\ "A" \in Ids(cache) /\ "B" \notin Ids(cache)
          /\ lruOutcome = "Miss"
          /\ "A" \notin LruIds /\ "B" \in LruIds
    /\ RunIs("Hostile", Scan) =>
          /\ Hit /\ lastAction.block = "A"
          /\ lruOutcome = "Miss"

\* the scan has ended with a hit on A that the plain LRU cache missed
C14_Witness == RunIs("Hostile", Scan) /\ Hit /\ lruOutcome = "Miss" /\ lru[1] = "A"

\* C15: reported confidence.  It is 0 until the first MissEvict; a MissEvict
\* sets it to the maximum fresh score over the blocks resident before the
\* replacement, the incoming block not counted; Hit, MissInsert and workload
\* switches leave it unchanged.
C15_ReportedConfidence ==
    /\ [](evictions = 0 => confidence = 0)
    /\ [](MissEvict =>
            /\ \E i \in 1..Len(prevCache) : confidence = FreshScore(i)
            /\ \A i \in 1..Len(prevCache) : FreshScore(i) <= confidence)
    /\ [][evictions' = evictions => confidence' = confidence]_vars

\* a hit after a Friendly eviction whose incoming block scored 0.7, above
\* the confidence 0.55 that is still reported
C15_Witness ==
    /\ Hit /\ evictions = 1 /\ accessMode = "Friendly"
    /\ confidence = Score(55, 100)
    /\ \E i \in 1..Len(prevCache) :
          prevCache[i].recency = 0 /\ prevCache[i].frequency = 1
          /\ prevCache[i].score > confidence

\* the ids access may be given next: the empty identifier, the ids already
\* accessed and the next id of the blocks array
NextIds == {""} \cup {blocks[k] : k \in 1..(IF seen < Len(blocks) THEN seen + 1 ELSE seen)}

\* no counter is at its bound, so no access is cut
Roomy ==
    /\ evictions < MaxEvictions
    /\ \A i \in 1..Len(cache) :
          /\ cache[i].recency + evaluations <= MaxRecency * evaluations
          /\ cache[i].frequency + evaluations <= 1 + (MaxFrequency - 1) * evaluations

\* C16: outcome classification.  Every access, the empty identifier
\* included, has exactly one outcome: Hit exactly when the id was resident
\* before, MissInsert exactly when it was absent with fewer than CAPACITY
\* blocks resident, MissEvict exactly when it was absent with CAPACITY blocks
\* resident; afterwards the id is resident; and access is defined for every
\* id in every cache state.
C16_OutcomeClassification ==
    /\ Accessed =>
          /\ Len(prevCache) <= CAPACITY
          /\ Hit <=> lastAction.block \in Ids(prevCache)
          /\ MissInsert <=>
                lastAction.block \notin Ids(prevCache) /\ Len(prevCache) < CAPACITY
          /\ MissEvict <=>
                lastAction.block \notin Ids(prevCache) /\ Len(prevCache) = CAPACITY
          /\ lastAction.block \in Ids(cache)
          /\ Hit => Len(cache) = Len(prevCache) /\ decisionMode = "IDLE"
          /\ MissInsert => Len(cache) = Len(prevCache) + 1 /\ decisionMode = "IDLE"
          /\ MissEvict => Len(cache) = Len(prevCache) /\ decisionMode # "IDLE"
    /\ Roomy => \A id \in NextIds :
          ENABLED (access(id) /\ UNCHANGED <<lru, lruOutcome>>)

\* the empty identifier was inserted by an eviction and is now hit
C16_Witness ==
    /\ Hit /\ lastAction.block = "" /\ evictions >= 1
    /\ \E i \in 1..Len(cache) : cache[i].id = "" /\ cache[i].frequency = 2
    /\ "A" \notin Ids(cache)

\* C17: workload switch frame.  A step that changes the workload mode leaves
\* the resident blocks (ids, order, recency, frequency, stored score), the
\* reported confidence, the last decision mode and the last action as they
\* were; the stored scores stay those of the mode of the last access, and a
\* step that changes the cache is an access that rescores every resident
\* block under the mode selected at that time.
C17_WorkloadSwitchFrame ==
    /\ [][workload' # workload =>
              UNCHANGED <<cache, confidence, decisionMode, lastAction>>]_vars
    /\ [](\A i \in 1..Len(cache) :
              cache[i].score =
                  predictReuseProb(cache[i].frequency, cache[i].recency, accessMode))
    /\ [][cache' # cache =>
              /\ accessMode' = workload /\ workload' = workload
              /\ \A i \in 1..Len(cache') :
                    cache'[i].score =
                        predictReuseProb(cache'[i].frequency, cache'[i].recency,
                                         workload)]_vars

\* the mode was switched after an eviction on a full cache, and some stored
\* score is not the one the new mode would give
C17_Witness ==
    /\ workload # accessMode /\ Len(cache) = CAPACITY /\ MissEvict
    /\ confidence > 0 /\ decisionMode # "IDLE"
    /\ \E i \in 1..Len(cache) :
          cache[i].score #
              predictReuseProb(cache[i].frequency, cache[i].recency, workload)

\* C18: unique residency.  In every reachable state the ids of the resident
\* blocks are pairwise distinct.
C18_UniqueResidency ==
    \A i, j \in 1..Len(cache) : cache[i].id = cache[j].id => i = j

\* a full cache whose blocks were all hit again after an eviction: each
\* repeated id found its one position
C18_Witness ==
    /\ Len(cache) = CAPACITY /\ evictions >= 1 /\ Hit
    /\ Cardinality(Ids(cache)) = CAPACITY
    /\ \E i \in 1..Len(cache) : cache[i].frequency >= 3
    /\ \E i \in 1..Len(cache) :
          cache[i].frequency >= 2 /\ cache[i].id # lastAction.block

\* C19: feature bounds.  In every reachable state every resident block has
\* recency >= 0 and frequency >= 1 (hence >= 0), and no resident block holds
\* the Hostile score of frequency 0 (0.1).
C19_FeatureBounds ==
    \A i \in 1..Len(cache) :
        /\ cache[i].recency >= 0
        /\ cache[i].frequency >= 1
        /\ cache[i].score # Score(1, 10)
        /\ cache[i].score # predictReuseProb(0, cache[i].recency, "Hostile")

\* a Hostile eviction has just inserted a block with frequency 1 and
\* recency 0 next to aged blocks
C19_Witness ==
    /\ MissEvict /\ accessMode = "Hostile"
    /\ cache[VictimIndex].frequency = 1 /\ cache[VictimIndex].recency = 0
    /\ cache[VictimIndex].score = Score(4, 10)
    /\ \E i \in 1..Len(cache) : cache[i].recency = MaxRecency

\* the index the last access found its block at, in the cache it started from
HitIndex == findIndex(prevCache, lastAction.block)

\* the last access was to an id that was not resident
Absent == Accessed /\ lastAction.block \notin Ids(prevCache)

\* the block at index i kept its id and frequency and aged by one access
AgedInPlace(i) ==
    /\ cache[i].id = prevCache[i].id
    /\ cache[i].frequency = prevCache[i].frequency
    /\ cache[i].recency = prevCache[i].recency + 1

\* C21: hit update.  An access to a resident block adds exactly 1 to its
\* frequency and sets its recency to 0, adds exactly 1 to the recency of every
\* other resident block and keeps their frequency, keeps the number, ids and
\* order of the blocks, sets the decision mode to IDLE and records no victim
\* or method; and a second access to the same block right after leaves its
\* frequency 2 above what it was and its recency at 0.
C21_HitUpdate ==
    /\ []((Accessed /\ lastAction.block \in Ids(prevCache)) =>
            /\ Hit
            /\ Len(cache) = Len(prevCache)
            /\ cache[HitIndex].id = lastAction.block
            /\ cache[HitIndex].frequency = prevCache[HitIndex].frequency + 1
            /\ cache[HitIndex].recency = 0
            /\ \A i \in 1..Len(cache) : i # HitIndex => AgedInPlace(i)
            /\ decisionMode = "IDLE"
            /\ lastAction.victim = "" /\ lastAction.method = "" /\ scores = <<>>)
    /\ [][lastAction'.kind = "Hit" /\ prevCache' = cache =>
              confidence' = confidence]_vars
    /\ [][(Hit /\ lastAction'.kind = "Hit" /\ prevCache' = cache
              /\ lastAction'.block = lastAction.block) =>
              /\ Len(cache') = Len(prevCache)
              /\ cache'[HitIndex].id = lastAction.block
              /\ cache'[HitIndex].frequency = prevCache[HitIndex].frequency + 2
              /\ cache'[HitIndex].recency = 0]_vars

\* the second block of a full cache has just been hit for the second
\* time in a row, after an eviction
C21_Witness ==
    /\ Hit /\ Len(cache) = CAPACITY /\ evictions >= 1 /\ HitIndex = 2
    /\ prevCache[HitIndex].recency = 0 /\ prevCache[HitIndex].frequency = 2
    /\ cache[HitIndex].frequency = 3

\* C22: MissInsert update.  An access to a non-resident id while fewer than
\* CAPACITY blocks are resident appends a block with frequency 1 and recency
\* 0 at the end, adds exactly 1 to the recency of every block that was
\* resident and keeps their ids, order and frequency, removes no block and
\* sets the decision mode to IDLE.
C22_MissInsertUpdate ==
    (Absent /\ Len(prevCache) < CAPACITY) =>
        /\ MissInsert
        /\ Len(cache) = Len(prevCache) + 1
        /\ cache[Len(cache)].id = lastAction.block
        /\ cache[Len(cache)].frequency = 1
        /\ cache[Len(cache)].recency = 0
        /\ \A i \in 1..Len(prevCache) : AgedInPlace(i)
        /\ decisionMode = "IDLE"

\* the fourth block is inserted next to a block that was hit before
C22_Witness ==
    /\ MissInsert /\ Len(cache) = CAPACITY
    /\ \E i \in 1..Len(prevCache) : prevCache[i].frequency >= 2
    /\ \E i \in 1..Len(prevCache) : prevCache[i].recency >= 2

\* C23: MissEvict replaces in place.  An access to a non-resident id on a
\* full cache removes exactly one block, the victim, and puts the new block
\* (frequency 1, recency 0) at the victim's index; every other block keeps
\* its index, id and frequency and ages by exactly 1; the victim was resident
\* before the access, so it is never the block this access inserts.
C23_MissEvictInPlace ==
    (Absent /\ Len(prevCache) = CAPACITY) =>
        /\ MissEvict
        /\ Len(cache) = CAPACITY
        /\ \E v \in 1..CAPACITY :
              /\ prevCache[v].id = lastAction.victim
              /\ cache[v].id = lastAction.block
              /\ cache[v].frequency = 1
              /\ cache[v].recency = 0
              /\ \A i \in 1..CAPACITY : i # v => AgedInPlace(i)
        /\ lastAction.victim \notin Ids(cache)
        /\ lastAction.victim # lastAction.block
        /\ Ids(cache) = (Ids(prevCache) \ {lastAction.victim}) \cup {lastAction.block}

\* a second eviction in a row replaces a block in the middle of the cache
C23_Witness ==
    /\ MissEvict /\ evictions = 2
    /\ VictimIndex \in 2..(CAPACITY - 1)
    /\ \E i \in 1..Len(prevCache) : prevCache[i].frequency = 1 /\ prevCache[i].recency = 0

\* C24: recency tracks the access history.  After any accesses each resident
\* block's recency is the number of accesses (hits or misses, to any block)
\* made since the last access to that block; in a non-empty cache exactly one
\* block has recency 0 and it is the block accessed last.
C24_RecencyTracksHistory ==
    /\ \A i \in 1..Len(cache) : cache[i].recency = sinceAccess[cache[i].id]
    /\ cache # <<>> =>
          \E i \in 1..Len(cache) :
              /\ cache[i].id = lastAction.block
              /\ cache[i].recency = 0
              /\ \A j \in 1..Len(cache) : j # i => cache[j].recency > 0

\* after two evictions and a hit the four recencies are 0, 1, 2 and 4
C24_Witness ==
    /\ Hit /\ evictions = MaxEvictions /\ Len(cache) = CAPACITY
    /\ {cache[i].recency : i \in 1..Len(cache)} = {0, 1, 2, MaxRecency}
    /\ \E i \in 1..Len(cache) : cache[i].recency = 0 /\ cache[i].frequency >= 2

Reentry == <<"A", "A", "B", "C", "D", "E", "A">>

\* C25: frequency tracks the accesses since entry.  After any accesses each
\* resident block's frequency is the number of accesses made to its id since
\* the id last entered the cache, the inserting miss counted as 1; a block
\* that enters by a miss has frequency 1 whatever happened to its id before:
\* in Friendly mode A, accessed twice, evicted by E and accessed again, is
\* resident with frequency 1.
C25_FrequencyTracksEntry ==
    /\ \A i \in 1..Len(cache) : cache[i].frequency = accessCount[cache[i].id]
    /\ Absent => BlockOf(lastAction.block).frequency = 1
    /\ RunIs("Friendly", SubSeq(Reentry, 1, 6)) =>
          /\ MissEvict /\ lastAction.victim = "A"
          /\ Victim.frequency = 2
    /\ RunIs("Friendly", Reentry) =>
          /\ MissEvict /\ "A" \notin Ids(prevCache)
          /\ BlockOf("A").frequency = 1

\* A has re-entered the cache after being evicted with frequency 2
C25_Witness ==
    /\ RunIs("Friendly", Reentry) /\ MissEvict
    /\ lastAction.block = "A" /\ BlockOf("A").frequency = 1
    /\ evictions = 2

\* C26: recencies are pairwise distinct.  In every state reached from the
\* empty cache no two resident blocks have the same recency, and at every LRU
\* fallback eviction the victim's recency is strictly above that of every
\* other resident block, so the choice never depends on the index order.
C26_DistinctRecencies ==
    /\ \A i, j \in 1..Len(cache) : cache[i].recency = cache[j].recency => i = j
    /\ (MissEvict /\ decisionMode = "LRU_FALLBACK") =>
          \A i \in 1..Len(prevCache) :
              i # VictimIndex => prevCache[i].recency < Victim.recency

\* an LRU fallback eviction whose victim is not the first block, after hits
\* reordered the recencies
C26_Witness ==
    /\ MissEvict /\ decisionMode = "LRU_FALLBACK" /\ VictimIndex >= 3
    /\ \E i \in 1..Len(prevCache) : prevCache[i].frequency >= 2
    /\ prevCache[1].recency < prevCache[2].recency

\* C27: the Hostile gate in terms of frequency.  For every MissEvict made in
\* Hostile mode the reported confidence is 0.4 or 0.95, the method is ML
\* exactly when some resident block has frequency >= 2, and when every
\* resident block has frequency 1 the method is LRU fallback and the victim
\* is the least recently used block.
C27_HostileGateByFrequency ==
    (MissEvict /\ accessMode = "Hostile") =>
        LET someFrequent == \E i \in 1..Len(prevCache) : prevCache[i].frequency >= 2
        IN  /\ confidence \in {Score(4, 10), Score(95, 100)}
            /\ confidence = Score(95, 100) <=> someFrequent
            /\ decisionMode = "ML" <=> someFrequent
            /\ lastAction.method = "ML" <=> someFrequent
            /\ ~someFrequent =>
                  /\ decisionMode = "LRU_FALLBACK"
                  /\ lastAction.method = "LRU_FALLBACK"
                  /\ \A i \in 1..Len(prevCache) :
                        prevCache[i].recency <= Victim.recency

\* a second Hostile eviction, over blocks that all have frequency 1, whose
\* victim is not the first block of the cache order
C27_Witness ==
    /\ MissEvict /\ accessMode = "Hostile" /\ evictions = 2
    /\ \A i \in 1..Len(prevCache) : prevCache[i].frequency = 1
    /\ decisionMode = "LRU_FALLBACK" /\ confidence = Score(4, 10)
    /\ VictimIndex # 1

\* C28: decision metadata agrees with the reported confidence.  In every
\* reachable state, workload switches included, decisionMode ML comes with a
\* stored confidence strictly above 0.88 and LRU_FALLBACK with one of at most
\* 0.88; decisionMode is ML or LRU_FALLBACK only when the last access was a
\* MissEvict, and IDLE initially and after every Hit or MissInsert.
C28_DecisionMetadata ==
    /\ decisionMode \in {"IDLE", "ML", "LRU_FALLBACK"}
    /\ decisionMode = "ML" => Above088(confidence)
    /\ decisionMode = "LRU_FALLBACK" => ~Above088(confidence)
    /\ decisionMode \in {"ML", "LRU_FALLBACK"} <=> MissEvict
    /\ (~Accessed \/ Hit \/ MissInsert) => decisionMode = "IDLE"

\* an ML decision made in Hostile mode is still displayed after the switch
\* to Friendly mode, under which no score would pass the gate
C28_Witness ==
    /\ decisionMode = "ML" /\ accessMode = "Hostile" /\ workload = "Friendly"
    /\ confidence = Score(95, 100) /\ evictions = 2
    /\ \A i \in 1..Len(cache) :
          ~Above088(predictReuseProb(cache[i].frequency, cache[i].recency, workload))

\* C29: the access update is a pure function of the previous cache.  After
\* every access the array the access started from still reads as it did
\* before the access (same recency, frequency and score in every block), and
\* evaluating the updater once more on that array gives the cache that the
\* single evaluation gave.
C29_PureUpdate ==
    Accessed =>
        /\ snapshot = prevCache
        /\ setCacheUpdater(snapshot, lastAction.block, accessMode) = cache

SlotRun == <<"A", "B", "C", "D", "A", "E", "F">>

\* C30: single-slot replacement under ML-guided eviction.  In Hostile mode,
\* when an ML-guided MissEvict is followed by another ML-guided MissEvict with
\* no other access in between, the second replaces the block at the index
\* the first replaced: its victim is the block the first inserted, and the
\* blocks at all other indices stay where they are, whatever their recency.
\* After A, B, C, D, A, E, F the cache holds A, F, C, D: F took the slot of E,
\* which had taken the slot of B.
C30_SingleSlotReplacement ==
    /\ [][(/\ MissEvict /\ decisionMode = "ML" /\ accessMode = "Hostile"
           /\ evictions' = evictions + 1
           /\ decisionMode' = "ML" /\ accessMode' = "Hostile") =>
              /\ lastAction'.victim = lastAction.block
              /\ \A i \in 1..Len(cache) :
                    IF cache[i].id = lastAction.block
                    THEN cache'[i].id = lastAction'.block
                    ELSE /\ cache'[i].id = cache[i].id
                         /\ cache'[i].recency > cache[i].recency]_vars
    /\ [](RunIs("Hostile", SlotRun) =>
              /\ MissEvict /\ decisionMode = "ML" /\ lastAction.victim = "E"
              /\ [i \in 1..Len(cache) |-> cache[i].id] = <<"A", "F", "C", "D">>)

\* F has replaced E in the second slot, one access after E replaced B there,
\* while C, the least recently used block, stays
C30_Witness ==
    /\ RunIs("Hostile", SlotRun)
    /\ MissEvict /\ decisionMode = "ML" /\ evictions = 2
    /\ VictimIndex = 2 /\ Victim.id = "E" /\ Victim.recency = 0
    /\ cache[3].recency = MaxRecency
====
